---- MODULE Spec2Model ----
(***************************************************************************)
(* Model of astack.cpp: the JVMTI agent that dumps the stacks of all Java  *)
(* threads over a socket.  One worker thread serves connections; for each  *)
(* enumerated thread it takes x_trace_lock, looks the thread's ThreadTag   *)
(* up, signals the thread (SIGSTACK), spins on x_trace_running until the   *)
(* signal handler has filled x_trace, releases the lock and prints.        *)
(* Thread start/end callbacks attach and free the ThreadTag records.       *)
(***************************************************************************)
EXTENDS Integers, Sequences, FiniteSets, TLC

\* ---------------------------------------------------------------- bounds
NumThreads == 1      \* application (non-worker) Java threads
MaxConn == 2         \* connections the worker accepts in a run
SpinBound == 2       \* iterations of the spin loop (100 * 1000 * 1000 in the code)

\* ------------------------------------------------------------- universe
Worker == 1                                \* the "AStack Listener" agent thread
NullTag == 0                               \* nullptr / tag value 0
AppThreads == 2..(NumThreads + 1)
AllThreads == {Worker} \cup AppThreads
NoFrames == [req |-> 0, thr |-> 0]         \* zero-initialised x_trace (num_frames = 0)

VARIABLES
  tpc,              \* per thread: position in its life (start/end callbacks)
  tag,              \* per thread handle: the jlong tag (NullTag or a record address)
  heap,             \* per record address: "unalloc" | "live" | "freed"
  x_trace_lock,     \* owner of the raw monitor (NullTag when free)
  x_trace,          \* the capture slot: [jni, frames]
  x_trace_running,  \* the atomic_flag
  pending,          \* per thread: SIGSTACK pending (request that raised it, 0 = none)
  hpc,              \* per thread: position inside signalHandler
  hreq,             \* per thread: request whose signal the running handler serves
  wpc,              \* worker: position in worker/handleClient/dumpThread
  conn,             \* worker: connections accepted so far
  threads,          \* handleClient: the array GetAllThreads returned
  i,                \* handleClient: loop index (1-based)
  ltag,             \* dumpThread: local `tag`
  done,             \* dumpThread: local `done`
  spins,            \* dumpThread: spin loop counter
  req,              \* number of the current dumpThread call
  out,              \* the client FILE: what has been written on this connection
  results,          \* outcome of each dumpThread call of this connection
  fn,               \* formatting: the function being called ("none" outside a call)
  arg,              \* formatting: its arguments
  ret               \* formatting: <<>> before the call, <<result>> after it

vars == <<tpc, tag, heap, x_trace_lock, x_trace, x_trace_running, pending, hpc,
          hreq, wpc, conn, threads, i, ltag, done, spins, req, out, results,
          fn, arg, ret>>

threadVars == <<tpc, tag, heap>>
slotVars == <<x_trace, x_trace_running>>
sigVars == <<pending, hpc, hreq>>
workerVars == <<wpc, conn, threads, i, ltag, done, spins, req, out, results>>
callVars == <<fn, arg, ret>>

\* ------------------------------------------------------------- helpers
\* A Java thread GetAllThreads reports: started and not yet terminated.
Alive(t) == tpc[t] \in {"running", "end_wait", "end_locked", "ended"}

RECURSIVE Perms(_)
Perms(S) ==
  IF S = {} THEN {<<>>}
  ELSE UNION {{<<x>> \o p : p \in Perms(S \ {x})} : x \in S}

\* tag->jni read by dumpThread: the record's field when the record is live; a read
\* of freed memory yields any value.
ReadJni(r) == IF heap[r] = "live" THEN {r} ELSE AllThreads

\* tag->thread_id read by dumpThread for pthread_kill: the owner of a live record
\* whose thread still exists; otherwise (freed record, or the pthread_t of a thread
\* that has exited) the signal reaches any existing thread or none.
KillTargets(r) ==
  IF heap[r] = "live" /\ Alive(r) THEN {{r}}
  ELSE {{}} \cup {{t} : t \in {u \in AllThreads : Alive(u)}}

\* A standard signal does not queue: a second SIGSTACK on a thread that already
\* has one pending is merged into it, and the one delivery serves the latest request.
Raise(T, r) == [t \in AllThreads |-> IF t \in T THEN r ELSE pending[t]]

\* The mainline of a thread does not run while its signal handler does; a signal
\* the worker sends to itself is handled before pthread_kill returns.
Mainline(t) == hpc[t] = "idle"
WorkerRuns == tpc[Worker] = "running" /\ hpc[Worker] = "idle" /\ pending[Worker] = 0

ProgInit ==
  /\ tpc = [t \in AllThreads |-> "unstarted"]
  /\ tag = [t \in AllThreads |-> NullTag]
  /\ heap = [t \in AllThreads |-> "unalloc"]
  /\ x_trace_lock = NullTag
  /\ x_trace = [jni |-> NullTag, frames |-> NoFrames]
  /\ x_trace_running = FALSE
  /\ pending = [t \in AllThreads |-> 0]
  /\ hpc = [t \in AllThreads |-> "idle"]
  /\ hreq = [t \in AllThreads |-> 0]
  /\ wpc = "accept"
  /\ conn = 0
  /\ threads = <<>>
  /\ i = 1
  /\ ltag = NullTag
  /\ done = FALSE
  /\ spins = 0
  /\ req = 0
  /\ out = <<>>
  /\ results = <<>>

Init == ProgInit /\ fn = "none" /\ arg = <<>> /\ ret = <<>>

\* ------------------------------------------------- thread start and end
\* (mutant) the tag is set although no record was allocated and attached
StartTagAlways(t, allocOk, setOk) == t

\* The tag onThreadStart leaves on the handle.
StartTag(t, allocOk, setOk) == IF allocOk /\ setOk THEN t ELSE NullTag
\* The record after onThreadStart: kept when attached, deallocated when SetTag failed.
StartHeap(t, allocOk, setOk) ==
  IF ~allocOk THEN "unalloc" ELSE IF setOk THEN "live" ELSE "freed"

onThreadStart(t) ==
  /\ tpc[t] = "unstarted"
  /\ \E allocOk, setOk \in BOOLEAN :
       /\ tag' = [tag EXCEPT ![t] = StartTag(t, allocOk, setOk)]
       /\ heap' = [heap EXCEPT ![t] = StartHeap(t, allocOk, setOk)]
  /\ tpc' = [tpc EXCEPT ![t] = "running"]
  /\ UNCHANGED <<callVars, x_trace_lock, slotVars, sigVars, workerVars>>

\* The thread-end notification: the terminating thread calls onThreadEnd and
\* waits for x_trace_lock.
onThreadEndCall(t) ==
  /\ t \in AppThreads
  /\ tpc[t] = "running"
  /\ Mainline(t)
  /\ tpc' = [tpc EXCEPT ![t] = "end_wait"]
  /\ UNCHANGED <<callVars, tag, heap, x_trace_lock, slotVars, sigVars, workerVars>>

onThreadEndEnter(t) ==
  /\ tpc[t] = "end_wait"
  /\ Mainline(t)
  /\ x_trace_lock = NullTag
  /\ x_trace_lock' = t
  /\ tpc' = [tpc EXCEPT ![t] = "end_locked"]
  /\ UNCHANGED <<callVars, tag, heap, slotVars, sigVars, workerVars>>

\* The tag onThreadEnd leaves on the handle.
EndTag(cur, getOk, setOk) == IF getOk /\ cur # NullTag /\ setOk THEN NullTag ELSE cur
\* Whether onThreadEnd deallocates the record.
EndFrees(cur, getOk) == getOk /\ cur # NullTag

onThreadEndBody(t) ==
  /\ tpc[t] = "end_locked"
  /\ Mainline(t)
  /\ \E getOk, setOk \in BOOLEAN :
       /\ tag' = [tag EXCEPT ![t] = EndTag(tag[t], getOk, setOk)]
       /\ heap' = IF EndFrees(tag[t], getOk)
                  THEN [heap EXCEPT ![tag[t]] = "freed"] ELSE heap
  /\ x_trace_lock' = NullTag
  /\ tpc' = [tpc EXCEPT ![t] = "ended"]
  /\ UNCHANGED <<callVars, slotVars, sigVars, workerVars>>

\* The thread terminates after its end callback; a signal still pending dies with it.
ThreadExit(t) ==
  /\ tpc[t] = "ended"
  /\ Mainline(t)
  /\ tpc' = [tpc EXCEPT ![t] = "exited"]
  /\ pending' = [pending EXCEPT ![t] = 0]
  /\ UNCHANGED <<callVars, tag, heap, x_trace_lock, slotVars, hpc, hreq, workerVars>>

\* ------------------------------------------------------- signal handler
\* Delivery of a pending SIGSTACK: the thread enters signalHandler.
signalHandlerEnter(t) ==
  /\ Alive(t)
  /\ pending[t] # 0
  /\ hpc[t] = "idle"
  /\ hpc' = [hpc EXCEPT ![t] = "walk"]
  /\ hreq' = [hreq EXCEPT ![t] = pending[t]]
  /\ pending' = [pending EXCEPT ![t] = 0]
  /\ UNCHANGED <<callVars, threadVars, x_trace_lock, slotVars, workerVars>>

\* What AsyncGetCallTrace deposits in the slot: the stack of the interrupted thread.
Deposit(t) == [x_trace EXCEPT !.frames = [req |-> hreq[t], thr |-> t]]

\* (mutant) the handler brackets AsyncGetCallTrace with the lock
signalHandlerWalkLocked(t) ==
  /\ hpc[t] = "walk"
  /\ x_trace_lock = NullTag
  /\ x_trace' = Deposit(t)
  /\ hpc' = [hpc EXCEPT ![t] = "clear"]
  /\ UNCHANGED <<callVars, threadVars, x_trace_lock, x_trace_running, pending, hreq, workerVars>>

\* (mutant) the flag is cleared together with the walk, before the handler is done
signalHandlerWalkClears(t) ==
  /\ hpc[t] = "walk"
  /\ x_trace' = Deposit(t)
  /\ x_trace_running' = FALSE
  /\ hpc' = [hpc EXCEPT ![t] = "clear"]
  /\ UNCHANGED <<callVars, threadVars, x_trace_lock, pending, hreq, workerVars>>

\* signalHandler: AsyncGetCallTrace(&x_trace, MAX_FRAMES, ucontext).
signalHandlerWalk(t) ==
  /\ hpc[t] = "walk"
  /\ x_trace' = Deposit(t)
  /\ hpc' = [hpc EXCEPT ![t] = "clear"]
  /\ UNCHANGED <<callVars, threadVars, x_trace_lock, x_trace_running, pending, hreq, workerVars>>

\* signalHandler: x_trace_running.clear(), and the return to the interrupted code.
signalHandlerClear(t) ==
  /\ hpc[t] = "clear"
  /\ x_trace_running' = FALSE
  /\ hpc' = [hpc EXCEPT ![t] = "idle"]
  /\ hreq' = [hreq EXCEPT ![t] = 0]
  /\ UNCHANGED <<callVars, threadVars, x_trace_lock, x_trace, pending, workerVars>>

\* --------------------------------------------------------------- worker
\* accept() returns a client; fdopen gives it a fresh FILE.
workerAccept ==
  /\ wpc = "accept"
  /\ WorkerRuns
  /\ conn < MaxConn
  /\ conn' = conn + 1
  /\ out' = <<>>
  /\ results' = <<>>
  /\ wpc' = "handleClient"
  /\ UNCHANGED <<callVars, threadVars, x_trace_lock, slotVars, sigVars, threads, i, ltag, done,
                 spins, req>>

\* handleClient up to its loop: GetAllThreads succeeds with the live threads in
\* some order, or fails and handleClient returns.
handleClientEnumerate ==
  /\ wpc = "handleClient"
  /\ WorkerRuns
  /\ \E getOk \in BOOLEAN :
       IF getOk
       THEN /\ threads' \in Perms({t \in AllThreads : Alive(t)})
            /\ wpc' = "loop"
       ELSE /\ threads' = <<>>
            /\ wpc' = "fclose"
  /\ i' = 1
  /\ UNCHANGED <<callVars, threadVars, x_trace_lock, slotVars, sigVars, conn, ltag, done, spins,
                 req, out, results>>

\* (mutant) the array is walked from its end
HandleReversed(ths, k) == ths[Len(ths) + 1 - k]

\* The handle the loop of handleClient dumps in iteration k: threads[k].
Handle(ths, k) == ths[k]

\* The loop test of handleClient: call dumpThread for the next handle, or leave.
handleClientLoop ==
  /\ wpc = "loop"
  /\ WorkerRuns
  /\ IF i <= Len(threads)
     THEN wpc' = "dumpThread" /\ req' = req + 1
     ELSE wpc' = "fclose" /\ req' = req
  /\ UNCHANGED <<callVars, threadVars, x_trace_lock, slotVars, sigVars, conn, threads, i, ltag,
                 done, spins, out, results>>

\* dumpThread: RawMonitorEnter(x_trace_lock).
dumpThreadEnter ==
  /\ wpc = "dumpThread"
  /\ WorkerRuns
  /\ x_trace_lock = NullTag
  /\ x_trace_lock' = Worker
  /\ wpc' = "GetTag"
  /\ UNCHANGED <<callVars, threadVars, slotVars, sigVars, conn, threads, i, ltag, done, spins,
                 req, out, results>>

\* (mutant) the null test of the tag is missing
NoRecordOnErrorOnly(getOk, t) == ~getOk

\* The early return of dumpThread: GetTag failed or the tag is null.
NoRecord(getOk, t) == ~getOk \/ t = NullTag

\* dumpThread: GetTag; without a record, RawMonitorExit and return.
dumpThreadGetTag ==
  /\ wpc = "GetTag"
  /\ WorkerRuns
  /\ \E getOk \in BOOLEAN :
       IF NoRecord(getOk, tag[Handle(threads, i)])
       THEN /\ x_trace_lock' = NullTag
            /\ results' = Append(results, "Unavailable")
            /\ i' = i + 1
            /\ wpc' = "loop"
            /\ ltag' = ltag
       ELSE /\ ltag' = tag[Handle(threads, i)]
            /\ wpc' = "setup"
            /\ UNCHANGED <<x_trace_lock, results, i>>
  /\ UNCHANGED <<callVars, threadVars, slotVars, sigVars, conn, threads, done, spins, req, out>>

\* dumpThread: x_trace.frames = x_frames; x_trace.jni = tag->jni; test_and_set.
dumpThreadSetup ==
  /\ wpc = "setup"
  /\ WorkerRuns
  /\ \E j \in ReadJni(ltag) : x_trace' = [x_trace EXCEPT !.jni = j]
  /\ x_trace_running' = TRUE
  /\ wpc' = "pthread_kill"
  /\ UNCHANGED <<callVars, threadVars, x_trace_lock, sigVars, conn, threads, i, ltag, done,
                 spins, req, out, results>>

\* dumpThread: pthread_kill(tag->thread_id, SIGSTACK).
dumpThreadKill ==
  /\ wpc = "pthread_kill"
  /\ WorkerRuns
  /\ \E T \in KillTargets(ltag) : pending' = Raise(T, req)
  /\ spins' = 0
  /\ done' = FALSE
  /\ wpc' = "spin"
  /\ UNCHANGED <<callVars, threadVars, x_trace_lock, slotVars, hpc, hreq, conn, threads, i, ltag,
                 req, out, results>>

\* The loop condition of the spin loop, negated: the iteration bound is used up.
SpinExhausted(n) == n >= SpinBound

\* dumpThread: one pass of the spin loop (test_and_set sets the flag again), or
\* leaving it with done = false.
dumpThreadSpin ==
  /\ wpc = "spin"
  /\ WorkerRuns
  /\ IF SpinExhausted(spins)
     THEN /\ wpc' = "RawMonitorExit"
          /\ UNCHANGED <<done, spins, x_trace_running>>
     ELSE IF ~x_trace_running
     THEN /\ done' = TRUE
          /\ x_trace_running' = TRUE
          /\ wpc' = "RawMonitorExit"
          /\ spins' = spins
     ELSE /\ spins' = spins + 1
          /\ UNCHANGED <<done, x_trace_running, wpc>>
  /\ UNCHANGED <<callVars, threadVars, x_trace_lock, x_trace, sigVars, conn, threads, i, ltag,
                 req, out, results>>

\* (mutant) the lock is released on the success path only
LockAfterSpinIfDone(d) == IF d THEN NullTag ELSE Worker

\* (mutant) the lock is kept until printThreadDump has returned
LockAfterSpinKept(d) == Worker

\* The lock after the spin loop: RawMonitorExit comes before the test of done.
LockAfterSpin(d) == NullTag

\* (mutant) printThreadDump is called whatever the spin loop saw
PrintingAlways(d) == TRUE

\* dumpThread calls printThreadDump only if the spin loop saw the flag clear.
Printing(d) == d

\* dumpThread: RawMonitorExit, then printThreadDump or the warning on stderr.
dumpThreadExit ==
  /\ wpc = "RawMonitorExit"
  /\ WorkerRuns
  /\ x_trace_lock' = LockAfterSpin(done)
  /\ IF Printing(done)
     THEN /\ wpc' = "printThreadDump"
          /\ UNCHANGED <<results, i>>
     ELSE /\ results' = Append(results, "Timeout")
          /\ i' = i + 1
          /\ wpc' = "loop"
  /\ UNCHANGED <<callVars, threadVars, slotVars, sigVars, conn, threads, ltag, done, spins, req,
                 out>>

Line(kind, fr) ==
  [kind |-> kind, pos |-> i, h |-> Handle(threads, i), req |-> req, frames |-> fr]

\* printThreadDump: the header, when GetThreadState and GetThreadInfo succeed.
printThreadDumpHeader ==
  /\ wpc = "printThreadDump"
  /\ WorkerRuns
  /\ \E infoOk \in BOOLEAN :
       out' = IF infoOk THEN Append(out, Line("header", NoFrames)) ELSE out
  /\ wpc' = "printFrames"
  /\ UNCHANGED <<callVars, threadVars, x_trace_lock, slotVars, sigVars, conn, threads, i, ltag,
                 done, spins, req, results>>

\* The frame lines printThreadDump writes: those of x_trace at the time of
\* the loop (none when num_frames is 0), then the blank line.
FrameLines(slot) ==
  (IF slot.frames = NoFrames THEN <<>> ELSE <<Line("frames", slot.frames)>>)
    \o <<Line("blank", NoFrames)>>

printThreadDumpFrames ==
  /\ wpc = "printFrames"
  /\ WorkerRuns
  /\ out' = out \o FrameLines(x_trace)
  /\ results' = Append(results, "Printed")
  /\ i' = i + 1
  /\ wpc' = "loop"
  /\ UNCHANGED <<callVars, threadVars, x_trace_lock, slotVars, sigVars, conn, threads, ltag, done,
                 spins, req>>

\* worker: fclose(out), back to accept.
workerClose ==
  /\ wpc = "fclose"
  /\ WorkerRuns
  /\ wpc' = "accept"
  /\ UNCHANGED <<callVars, threadVars, x_trace_lock, slotVars, sigVars, conn, threads, i, ltag,
                 done, spins, req, out, results>>

WorkerNext ==
  \/ workerAccept
  \/ handleClientEnumerate
  \/ handleClientLoop
  \/ dumpThreadEnter
  \/ dumpThreadGetTag
  \/ dumpThreadSetup
  \/ dumpThreadKill
  \/ dumpThreadSpin
  \/ dumpThreadExit
  \/ printThreadDumpHeader
  \/ printThreadDumpFrames
  \/ workerClose

ThreadNext(t) ==
  \/ onThreadStart(t)
  \/ onThreadEndCall(t)
  \/ onThreadEndEnter(t)
  \/ onThreadEndBody(t)
  \/ ThreadExit(t)

HandlerNext(t) ==
  \/ signalHandlerEnter(t)
  \/ signalHandlerWalk(t)
  \/ signalHandlerClear(t)

Next ==
  \/ WorkerNext
  \/ \E t \in AllThreads : ThreadNext(t)
  \/ \E t \in AllThreads : HandlerNext(t)

Spec == Init /\ [][Next]_vars

\* Scheduling: a runnable thread runs (the worker, a thread inside onThreadEnd that
\* holds the lock, a handler that has been entered), and the signal the worker sends
\* to itself is delivered at once.  Nothing makes another thread take a pending
\* signal in bounded time.
FairSpec ==
  /\ Spec
  /\ WF_vars(WorkerNext)
  /\ WF_vars(signalHandlerEnter(Worker))
  /\ \A t \in AllThreads : WF_vars(onThreadEndBody(t))
  /\ \A t \in AllThreads : WF_vars(signalHandlerWalk(t) \/ signalHandlerClear(t))

\* The runs in which no capture times out: the spin loop is never left through its
\* iteration bound, every other step is as in Spec.
dumpThreadSpinInTime == ~SpinExhausted(spins) /\ dumpThreadSpin

NoTimeoutWorkerNext ==
  \/ workerAccept
  \/ handleClientEnumerate
  \/ handleClientLoop
  \/ dumpThreadEnter
  \/ dumpThreadGetTag
  \/ dumpThreadSetup
  \/ dumpThreadKill
  \/ dumpThreadSpinInTime
  \/ dumpThreadExit
  \/ printThreadDumpHeader
  \/ printThreadDumpFrames
  \/ workerClose

NoTimeoutNext ==
  \/ NoTimeoutWorkerNext
  \/ \E t \in AllThreads : ThreadNext(t)
  \/ \E t \in AllThreads : HandlerNext(t)

NoTimeoutSpec == Init /\ [][NoTimeoutNext]_vars

\* ------------------------------------------------------------ formatting
\* The pure functions of the dump (threadStateEnum, getLineNumber,
\* fixClassSignature, printCallFrame), called on inputs drawn in the initial state.

\* The JVMTI_THREAD_STATE_* bits threadStateEnum tests; a state is the set of its bits.
StateBits ==
  {"ALIVE", "TERMINATED", "RUNNABLE", "BLOCKED_ON_MONITOR_ENTER",
   "WAITING_INDEFINITELY", "WAITING_WITH_TIMEOUT", "IN_OBJECT_WAIT", "PARKED",
   "SLEEPING"}

\* (mutant) the IN_OBJECT_WAIT and PARKED tests are swapped in the indefinite wait
threadStateEnumParkedFirst(state) ==
  IF "ALIVE" \in state
  THEN IF "RUNNABLE" \in state THEN "RUNNABLE"
       ELSE IF "BLOCKED_ON_MONITOR_ENTER" \in state THEN "BLOCKED (on object monitor)"
       ELSE IF "WAITING_INDEFINITELY" \in state
       THEN IF "PARKED" \in state THEN "WAITING (parking)"
            ELSE IF "IN_OBJECT_WAIT" \in state THEN "WAITING (on object monitor)"
            ELSE "WAITING"
       ELSE IF "WAITING_WITH_TIMEOUT" \in state
       THEN IF "IN_OBJECT_WAIT" \in state THEN "TIMED_WAITING (on object monitor)"
            ELSE IF "PARKED" \in state THEN "TIMED_WAITING (parking)"
            ELSE IF "SLEEPING" \in state THEN "TIMED_WAITING (sleeping)"
            ELSE "TIMED_WAITING"
       ELSE "UNKNOWN"
  ELSE IF "TERMINATED" \in state THEN "TERMINATED"
  ELSE "NEW"

threadStateEnum(state) ==
  IF "ALIVE" \in state
  THEN IF "RUNNABLE" \in state THEN "RUNNABLE"
       ELSE IF "BLOCKED_ON_MONITOR_ENTER" \in state THEN "BLOCKED (on object monitor)"
       ELSE IF "WAITING_INDEFINITELY" \in state
       THEN IF "IN_OBJECT_WAIT" \in state THEN "WAITING (on object monitor)"
            ELSE IF "PARKED" \in state THEN "WAITING (parking)"
            ELSE "WAITING"
       ELSE IF "WAITING_WITH_TIMEOUT" \in state
       THEN IF "IN_OBJECT_WAIT" \in state THEN "TIMED_WAITING (on object monitor)"
            ELSE IF "PARKED" \in state THEN "TIMED_WAITING (parking)"
            ELSE IF "SLEEPING" \in state THEN "TIMED_WAITING (sleeping)"
            ELSE "TIMED_WAITING"
       ELSE "UNKNOWN"
  ELSE IF "TERMINATED" \in state THEN "TERMINATED"
  ELSE "NEW"

\* --- fixClassSignature
MaxStr == 5          \* names of up to MaxStr characters
Chars == {"L", ";", "/", ".", "a"}
Names == UNION {[1..n -> Chars] : n \in 0..MaxStr}

\* (mutant) the test of the last character is missing
WrappedHead(s) == Len(s) > 2 /\ s[1] = "L"

\* The negation of the early return: long enough, 'L' first and ';' last.
Wrapped(s) == Len(s) > 2 /\ s[1] = "L" /\ s[Len(s)] = ";"

\* memmove(s, s + 1, len - 2), the terminator at len - 2, then '/' to '.'.
fixClassSignature(s) ==
  IF ~Wrapped(s) THEN s
  ELSE [k \in 1..(Len(s) - 2) |-> IF s[k + 1] = "/" THEN "." ELSE s[k + 1]]

callFixClassSignature ==
  /\ fn = "fixClassSignature"
  /\ ret = <<>>
  /\ ret' = <<fixClassSignature(arg)>>
  /\ UNCHANGED <<fn, arg, threadVars, x_trace_lock, slotVars, sigVars, workerVars>>

\* --- getLineNumber
MaxLoc == 3          \* bytecode locations 0..MaxLoc
MaxLine == 2         \* source line numbers 1..MaxLine
MaxTable == 3        \* entries of a line-number table
NATIVE_METHOD_LINENO == -3
\* The negative locations drawn reach below NATIVE_METHOD_LINENO.
MinLoc == NATIVE_METHOD_LINENO - 1

\* (mutant) the test for a negative location is missing
EarlyReturnNever(target) == FALSE

\* getLineNumber returns its target at once when it is negative.
EarlyReturn(target) == target < 0

\* (mutant) the one-entry table gets no case of its own
SingleEntryNever(count) == FALSE

\* The case count == 1.
SingleEntry(count) == count = 1

\* (mutant) the entry after the boundary is taken
PairLineAfter(table, k) == table[k].line_number

\* The line the scan picks at boundary k: that of the entry before it.
PairLine(table, k) == table[k - 1].line_number

\* The for loop over table[1..count-1] (here 2..count): [line_number, last] after it.
RECURSIVE ScanTable(_, _, _, _)
ScanTable(table, target, k, last) ==
  IF k > Len(table) THEN [line_number |-> -1, last |-> last]
  ELSE IF target < table[k].start_location /\ target >= last
       THEN [line_number |-> PairLine(table, k), last |-> last]
       ELSE ScanTable(table, target, k + 1, table[k].start_location)

\* tableOk: whether GetLineNumberTable succeeded; table: the entries it returned.
getLineNumber(tableOk, table, target) ==
  IF EarlyReturn(target) THEN target
  ELSE IF ~tableOk THEN -1
  ELSE IF SingleEntry(Len(table)) THEN table[1].line_number
  ELSE IF Len(table) > 1
       THEN LET scan == ScanTable(table, target, 2, table[1].start_location)
            IN  IF scan.line_number = -1 /\ target >= scan.last
                THEN table[Len(table)].line_number
                ELSE scan.line_number
       ELSE -1

LineEntries == [start_location : 0..MaxLoc, line_number : 1..MaxLine]
LineTables == UNION {[1..n -> LineEntries] : n \in 0..MaxTable}

\* The calls drawn: any location on any table, and a failed GetLineNumberTable.
LineCalls ==
  [tableOk : {TRUE}, table : LineTables, target : MinLoc..MaxLoc]
    \cup [tableOk : {FALSE}, table : {<<>>}, target : MinLoc..MaxLoc]

callGetLineNumber ==
  /\ fn = "getLineNumber"
  /\ ret = <<>>
  /\ ret' = <<getLineNumber(arg.tableOk, arg.table, arg.target)>>
  /\ UNCHANGED <<fn, arg, threadVars, x_trace_lock, slotVars, sigVars, workerVars>>

\* --- printCallFrame
MaxDepth == 2        \* frames of one printed trace
Unknown == <<"U", "n", "k", "n", "o", "w", "n">>
NativeMethod == <<"N", "a", "t", "i", "v", "e", " ", "M", "e", "t", "h", "o", "d">>
UnknownSource == <<"U", "n", "k", "n", "o", "w", "n", " ", "S", "o", "u", "r", "c", "e">>
ClassSignature == <<"L", "a", "/", "a", ";">>   \* what GetClassSignature returns
MethodName == <<"m">>                           \* what GetMethodName returns
SourceFileName == <<"a", ".", "j">>             \* what GetSourceFileName returns

\* A char * is <<>> when null and <<text>> otherwise.
\* (mutant) the null pointer is printed as it is
TextOrNull(name) == IF name = <<>> THEN <<>> ELSE name[1]

\* name ?: "Unknown"
TextOrUnknown(name) == IF name = <<>> THEN Unknown ELSE name[1]

\* (mutant) the missing source file is tested before the native sentinel
LocationTextSourceFirst(line_number, source_name) ==
  IF source_name = <<>> THEN <<UnknownSource>>
  ELSE IF line_number = NATIVE_METHOD_LINENO THEN <<NativeMethod>>
  ELSE IF line_number <= 0 THEN <<source_name[1]>>
  ELSE <<source_name[1], line_number>>

\* The text between the parentheses: which of the four fprintf calls runs.
LocationText(line_number, source_name) ==
  IF line_number = NATIVE_METHOD_LINENO THEN <<NativeMethod>>
  ELSE IF source_name = <<>> THEN <<UnknownSource>>
  ELSE IF line_number <= 0 THEN <<source_name[1]>>
  ELSE <<source_name[1], line_number>>

\* frame: the frame's location (lineno) and the outcomes of the five lookups.
printCallFrame(frame) ==
  LET method_name == IF frame.nameOk THEN <<MethodName>> ELSE <<>>
      class_name  == IF frame.classOk /\ frame.sigOk
                     THEN <<fixClassSignature(ClassSignature)>> ELSE <<>>
      source_name == IF frame.classOk /\ frame.srcOk THEN <<SourceFileName>> ELSE <<>>
      line_number == getLineNumber(frame.tableOk, frame.table, frame.lineno)
  IN  [class_text  |-> TextOrUnknown(class_name),
       method_text |-> TextOrUnknown(method_name),
       location    |-> LocationText(line_number, source_name)]

\* Lookup outcomes: the class lookups are made only when the declaring class is found.
Lookups ==
  {l \in [nameOk : BOOLEAN, classOk : BOOLEAN, sigOk : BOOLEAN, srcOk : BOOLEAN] :
     ~l.classOk => (~l.sigOk /\ ~l.srcOk)}

Frame(l, c) ==
  [nameOk |-> l.nameOk, classOk |-> l.classOk, sigOk |-> l.sigOk, srcOk |-> l.srcOk,
   tableOk |-> c.tableOk, table |-> c.table, lineno |-> c.target]

\* Frames of a one-frame trace: any lookup outcomes, any location, any table shorter
\* than MaxTable.
Frames == {Frame(l, c) : l \in Lookups, c \in {d \in LineCalls : Len(d.table) < MaxTable}}

\* Frames of a longer trace: any lookup outcomes at location 0, the table missing,
\* empty, or of one entry.
DeepFrames ==
  {f \in Frames : /\ f.lineno = 0
                  /\ f.table \in {<<>>, <<[start_location |-> 0, line_number |-> 1]>>}}

Traces == [1..1 -> Frames] \cup UNION {[1..n -> DeepFrames] : n \in 2..MaxDepth}

\* One iteration of printThreadDump's loop: the next frame's line is written.
callPrintCallFrame ==
  /\ fn = "printCallFrame"
  /\ Len(ret) < Len(arg)
  /\ ret' = Append(ret, printCallFrame(arg[Len(ret) + 1]))
  /\ UNCHANGED <<fn, arg, threadVars, x_trace_lock, slotVars, sigVars, workerVars>>

\* printThreadDump passes the state GetThreadState returned to threadStateEnum.
callThreadStateEnum ==
  /\ fn = "threadStateEnum"
  /\ ret = <<>>
  /\ ret' = <<threadStateEnum(arg)>>
  /\ UNCHANGED <<fn, arg, threadVars, x_trace_lock, slotVars, sigVars, workerVars>>

FormatInit ==
  /\ ProgInit
  /\ ret = <<>>
  /\ \/ fn = "threadStateEnum" /\ arg \in SUBSET StateBits
     \/ fn = "getLineNumber" /\ arg \in LineCalls
     \/ fn = "fixClassSignature" /\ arg \in Names
     \/ fn = "printCallFrame" /\ arg \in Traces

FormatNext ==
  \/ callThreadStateEnum
  \/ callGetLineNumber
  \/ callFixClassSignature
  \/ callPrintCallFrame

FormatSpec == FormatInit /\ [][FormatNext]_vars

\* =============================================================== claims
\* Positions of the worker inside dumpThread, and those where it holds the lock.
InDumpThread ==
  wpc \in {"dumpThread", "GetTag", "setup", "pthread_kill", "spin", "RawMonitorExit",
           "printThreadDump", "printFrames"}
HoldsLock == wpc \in {"GetTag", "setup", "pthread_kill", "spin", "RawMonitorExit"}
FrameLineAt(k) == out[k].kind = "frames"

\* No handle carries a tag that a read through it would dereference wrongly: a
\* pointer to a freed record, or the record of a thread that has exited.  Once
\* false it stays false, so where it holds no lookup so far has returned such a tag.
NoStaleTag ==
  \A t \in AllThreads : tag[t] # NullTag => heap[tag[t]] = "live" /\ tpc[t] # "exited"

OwnFrames(k) == out[k].frames.req = out[k].req /\ out[k].frames.thr = out[k].h
LinesAt(p) == {k \in DOMAIN out : out[k].pos = p}
Capturing ==
  wpc \in {"dumpThread", "GetTag", "setup", "pthread_kill", "spin", "RawMonitorExit"}

\* C1: the frames dumpThread(T) prints are those deposited by the handler run that
\* this same request's pthread_kill on T triggered, after any earlier requests,
\* timed out or not.  Stated for the runs in which no stale tag was ever read, so
\* that a refutation shows a late handler and nothing else.
C1_PrintedFramesAreOwn ==
  NoStaleTag => \A k \in DOMAIN out : FrameLineAt(k) => OwnFrames(k)

\* C2: at most one handler invocation is populating the slot, and no handler
\* invocation of an earlier request writes the slot or clears the flag once a
\* later request has started.
C2_OneHandlerOfCurrentRequest ==
  /\ [](Cardinality({t \in AllThreads : hpc[t] # "idle"}) <= 1)
  /\ [][\A t \in AllThreads :
          (hpc[t] \in {"walk", "clear"} /\ hpc'[t] # hpc[t]) => hreq[t] = req]_vars

\* C3: the ThreadTag dumpThread reads has not been deallocated: onThreadEnd and
\* dumpThread exclude each other through x_trace_lock, and no lookup returns a
\* record that onThreadEnd has freed.
C3_TagReadIsLive ==
  /\ \A t \in AllThreads : ~(HoldsLock /\ tpc[t] = "end_locked")
  /\ wpc \in {"setup", "pthread_kill"} => heap[ltag] = "live"

\* C4: dumpThread on a handle without a record returns Unavailable: the step that
\* leaves the lookup for a null tag is the return, and the return raises no signal,
\* leaves the slot and the flag as they are and has released the lock.
C4_UnavailableTouchesNothing ==
  [][(wpc = "GetTag" /\ wpc' # "GetTag") =>
       /\ tag[threads[i]] = NullTag => wpc' = "loop"
       /\ wpc' = "loop" =>
            /\ pending' = pending /\ hpc' = hpc
            /\ x_trace' = x_trace /\ x_trace_running' = x_trace_running
            /\ x_trace_lock' = NullTag
            /\ results' = Append(results, "Unavailable")
            /\ out' = out]_vars

\* C4 witness: dumpThread has just returned Unavailable for a handle with no tag,
\* while the flag of an earlier request is still set.
C4_Witness ==
  /\ wpc = "loop" /\ i > 1 /\ Len(results) = i - 1
  /\ results[i - 1] = "Unavailable"
  /\ tag[threads[i - 1]] = NullTag
  /\ x_trace_running /\ x_trace_lock = NullTag

\* C5: every call of dumpThread returns with x_trace_lock released: the spin loop
\* never passes its iteration bound, the worker holds the lock nowhere outside the
\* locked part of dumpThread, and a call that has begun ends.
C5_DumpThreadReturns ==
  /\ [](spins <= SpinBound)
  /\ [](~HoldsLock => x_trace_lock # Worker)
  /\ [](InDumpThread => <>(~InDumpThread))

\* C5 witness: a capture has timed out (the signal it raised is still pending, its
\* handler never ran) and dumpThread has returned with the lock free.
C5_Witness ==
  /\ wpc = "loop" /\ i > 1 /\ Len(results) = i - 1
  /\ results[i - 1] = "Timeout"
  /\ pending[threads[i - 1]] = req
  /\ spins = SpinBound /\ x_trace_lock = NullTag

\* C6: within one dump an Unavailable or Timeout outcome never aborts the dump (when
\* the loop is left every enumerated handle has an outcome) and never corrupts the
\* output of a later thread.  Stated for the runs in which no stale tag was read.
C6_FailureLeavesLaterThreadsIntact ==
  NoStaleTag =>
    /\ wpc = "fclose" => Len(results) = Len(threads)
    /\ \A k \in DOMAIN out :
         (FrameLineAt(k) /\ \E p \in 1..(out[k].pos - 1) :
                              results[p] \in {"Unavailable", "Timeout"})
           => OwnFrames(k)

\* C7: blocks are written in enumeration order: every line belongs to the handle at
\* its position of the array, positions and request numbers never decrease along
\* the output, every earlier call has returned and no line of the current handle is
\* written while its capture runs.
C7_EnumerationOrder ==
  /\ \A k \in DOMAIN out :
       /\ out[k].pos \in 1..Len(threads) /\ out[k].pos <= i
       /\ out[k].h = threads[out[k].pos]
  /\ \A k, l \in DOMAIN out :
       k < l => /\ out[k].pos <= out[l].pos
                /\ (out[k].pos < out[l].pos <=> out[k].req < out[l].req)
  /\ InDumpThread => Len(results) = i - 1
  /\ Capturing => \A k \in DOMAIN out : out[k].pos < i

\* C7 witness: the blocks of two different handles are on the sink, the second one
\* complete.
C7_Witness ==
  /\ wpc = "loop" /\ Len(threads) = 2 /\ i = 3
  /\ threads[1] # threads[2]
  /\ LinesAt(1) # {} /\ LinesAt(2) # {}

\* C8 (as stated): the header of every enumerated handle is on the sink before its
\* capture is attempted, whatever the outcome, and every handle's block ends with a
\* blank line.
C8_HeaderBeforeCapture ==
  /\ wpc \in {"GetTag", "setup", "pthread_kill", "spin", "RawMonitorExit"} =>
       \E k \in LinesAt(i) : out[k].kind = "header"
  /\ \A p \in DOMAIN results : \E k \in LinesAt(p) : out[k].kind = "blank"

\* C8 (amended): nothing is written for a handle before its capture has completed:
\* printThreadDump runs only after done, so an Unavailable or Timeout outcome leaves
\* no line at all for that handle (no header, no blank line); a printed block is at
\* most one header, first, then the frames, then exactly one blank line, last.
C8_NothingWithoutCapture ==
  /\ wpc \in {"printThreadDump", "printFrames"} => done
  /\ Capturing => LinesAt(i) = {}
  /\ \A p \in DOMAIN results :
       /\ results[p] \in {"Unavailable", "Timeout"} => LinesAt(p) = {}
       /\ results[p] = "Printed" =>
            /\ Cardinality({k \in LinesAt(p) : out[k].kind = "blank"}) = 1
            /\ \A k \in LinesAt(p) :
                 /\ out[k].kind = "blank" => \A l \in LinesAt(p) : l <= k
                 /\ out[k].kind = "header" => \A l \in LinesAt(p) : k <= l

\* C8 witness: a handle timed out, a later handle of the same dump was printed.
C8_Witness ==
  \E p, q \in DOMAIN results :
    /\ p < q /\ results[p] = "Timeout" /\ results[q] = "Printed"
    /\ LinesAt(p) = {} /\ LinesAt(q) # {}

\* The first request number of the connection being served.
FirstReq == req - Len(results) + (IF InDumpThread THEN 0 ELSE 1)

\* C9: the worker serves one connection at a time and returns to accept after every
\* dump, and nothing carried over from an earlier dump affects the result of the
\* next: the frames written on a connection come from handler runs of requests of
\* that connection.  Stated for the runs in which no stale tag was read.
C9_DumpsAreIndependent ==
  NoStaleTag =>
    /\ wpc = "accept" => x_trace_lock # Worker
    /\ \A k \in DOMAIN out : FrameLineAt(k) => out[k].frames.req >= FirstReq

RECURSIVE FirstMatch(_, _)
FirstMatch(rows, state) ==
  IF rows = <<>> THEN "UNKNOWN"
  ELSE IF rows[1][1] \subseteq state /\ rows[1][2] \cap state = {}
       THEN rows[1][3]
       ELSE FirstMatch(Tail(rows), state)

\* Each row: the bits that must be set, the bits that must be clear, the label.
WaitRows ==
  << <<{"WAITING_INDEFINITELY", "IN_OBJECT_WAIT"}, {}, "WAITING (on object monitor)">>,
     <<{"WAITING_INDEFINITELY", "PARKED"}, {}, "WAITING (parking)">>,
     <<{"WAITING_INDEFINITELY"}, {}, "WAITING">>,
     <<{"WAITING_WITH_TIMEOUT", "IN_OBJECT_WAIT"}, {}, "TIMED_WAITING (on object monitor)">>,
     <<{"WAITING_WITH_TIMEOUT", "PARKED"}, {}, "TIMED_WAITING (parking)">>,
     <<{"WAITING_WITH_TIMEOUT", "SLEEPING"}, {}, "TIMED_WAITING (sleeping)">>,
     <<{"WAITING_WITH_TIMEOUT"}, {}, "TIMED_WAITING">> >>

StatedRows ==
  << <<{}, {"ALIVE", "TERMINATED"}, "NEW">>,
     <<{"TERMINATED"}, {}, "TERMINATED">>,
     <<{"RUNNABLE"}, {}, "RUNNABLE">>,
     <<{"BLOCKED_ON_MONITOR_ENTER"}, {}, "BLOCKED">> >> \o WaitRows

\* The table the code implements: a thread that is not alive is TERMINATED or NEW
\* whatever its other bits, and the blocked label names the monitor.
CodeRows ==
  << <<{"TERMINATED"}, {"ALIVE"}, "TERMINATED">>,
     <<{}, {"ALIVE"}, "NEW">>,
     <<{"RUNNABLE"}, {}, "RUNNABLE">>,
     <<{"BLOCKED_ON_MONITOR_ENTER"}, {}, "BLOCKED (on object monitor)">> >> \o WaitRows

Returned(f) == fn = f /\ ret # <<>>

\* C11 (as stated): for every combination of state bits threadStateEnum returns the
\* label of the stated first-match table, the blocked label being exactly BLOCKED.
C11_StatedLabelTable ==
  Returned("threadStateEnum") => ret[1] = FirstMatch(StatedRows, arg)

\* C11 (amended): threadStateEnum returns the label of the first-match table that
\* tests aliveness first (not alive: TERMINATED if the terminated bit is set, else
\* NEW, whatever the other bits) and labels a thread blocked on monitor entry
\* "BLOCKED (on object monitor)"; the waiting rows and UNKNOWN are as stated.
C11_CodeLabelTable ==
  Returned("threadStateEnum") => ret[1] = FirstMatch(CodeRows, arg)

\* C11 witness: the label of an alive thread blocked on a monitor has been returned.
C11_Witness ==
  /\ Returned("threadStateEnum")
  /\ arg = {"ALIVE", "BLOCKED_ON_MONITOR_ENTER"}
  /\ ret[1] = "BLOCKED (on object monitor)"

\* C12 (as stated): getLineNumber returns NATIVE_METHOD_LINENO exactly when the
\* location is negative.
C12_SentinelIffNegative ==
  Returned("getLineNumber") => (ret[1] = NATIVE_METHOD_LINENO <=> arg.target < 0)

\* C12 (amended): getLineNumber returns a negative location unchanged, whatever the
\* table, so it returns NATIVE_METHOD_LINENO exactly when the location is
\* NATIVE_METHOD_LINENO itself (table lines being positive).
C12_NegativeLocationUnchanged ==
  Returned("getLineNumber") =>
    /\ arg.target < 0 => ret[1] = arg.target
    /\ ret[1] = NATIVE_METHOD_LINENO <=> arg.target = NATIVE_METHOD_LINENO

\* C12 witness: a negative location other than the sentinel has been resolved, on a
\* method that has a line table.
C12_Witness ==
  /\ Returned("getLineNumber")
  /\ arg.target = -1 /\ Len(arg.table) = 1 /\ ret[1] = -1

Increasing(table) ==
  \A k \in 1..(Len(table) - 1) : table[k].start_location <= table[k + 1].start_location

\* C13: on a table of more than one entry with increasing starts and a location
\* >= 0, a location in the range of entry k gets entry k's line and a location at
\* or past the last start gets the last line.
C13_RangeLookup ==
  (/\ Returned("getLineNumber")
   /\ arg.tableOk /\ Len(arg.table) > 1 /\ Increasing(arg.table) /\ arg.target >= 0) =>
    /\ \A k \in 1..(Len(arg.table) - 1) :
         (/\ arg.table[k].start_location <= arg.target
          /\ arg.target < arg.table[k + 1].start_location)
           => ret[1] = arg.table[k].line_number
    /\ arg.target >= arg.table[Len(arg.table)].start_location
         => ret[1] = arg.table[Len(arg.table)].line_number

\* C13 witness: a location inside the range of the middle entry of a three-entry
\* table, whose neighbours have another line, has been resolved.
C13_Witness ==
  /\ Returned("getLineNumber")
  /\ arg.tableOk /\ Len(arg.table) = 3 /\ Increasing(arg.table)
  /\ arg.table[2].start_location <= arg.target
  /\ arg.target < arg.table[3].start_location
  /\ arg.table[1].line_number # arg.table[2].line_number
  /\ arg.table[3].line_number # arg.table[2].line_number
  /\ ret[1] = arg.table[2].line_number

\* C14: on a table of exactly one entry and a location >= 0 getLineNumber returns
\* that entry's line, also for a location before the entry's start.
C14_SingleEntryLine ==
  (/\ Returned("getLineNumber")
   /\ arg.tableOk /\ Len(arg.table) = 1 /\ arg.target >= 0) =>
    ret[1] = arg.table[1].line_number

\* C14 witness: a location before the start of the only entry has been resolved.
C14_Witness ==
  /\ Returned("getLineNumber")
  /\ arg.tableOk /\ Len(arg.table) = 1
  /\ 0 <= arg.target /\ arg.target < arg.table[1].start_location
  /\ ret[1] = arg.table[1].line_number

\* The part of C15 that stands: a name shorter than 3 characters, or not both
\* starting with 'L' and ending with ';', is returned unchanged.
UnwrappedUnchanged ==
  (Len(arg) < 3 \/ arg[1] # "L" \/ arg[Len(arg)] # ";") => ret[1] = arg

\* C15 (as stated): fixClassSignature is idempotent, f(f(s)) = f(s) for every name
\* s, and leaves unchanged every name shorter than 3 characters or not of the form
\* L...; .
C15_Idempotent ==
  Returned("fixClassSignature") =>
    /\ fixClassSignature(ret[1]) = ret[1]
    /\ UnwrappedUnchanged

\* C15 (amended): fixClassSignature leaves unchanged every name shorter than 3
\* characters or not of the form L...; , and f(f(s)) = f(s) exactly for the names s
\* whose result f(s) is not again of the form L...; with 3 or more characters: in
\* particular for every class signature L<name>; whose <name> has no ';'.
C15_IdempotentUnlessNested ==
  Returned("fixClassSignature") =>
    /\ UnwrappedUnchanged
    /\ fixClassSignature(ret[1]) = ret[1]
         <=> (Len(ret[1]) < 3 \/ ret[1][1] # "L" \/ ret[1][Len(ret[1])] # ";")
    /\ (/\ Len(arg) > 2 /\ arg[1] = "L" /\ arg[Len(arg)] = ";"
        /\ \A k \in 2..(Len(arg) - 1) : arg[k] # ";")
         => fixClassSignature(ret[1]) = ret[1]

\* C15 witness: a class signature with a package separator has been normalized.
C15_Witness ==
  /\ Returned("fixClassSignature")
  /\ arg = <<"L", "a", "/", "a", ";">>
  /\ ret[1] = <<"a", ".", "a">>

\* The frames whose lines have been written, by position.
Written == IF fn = "printCallFrame" THEN 1..Len(ret) ELSE {}

SourceKnown(f) == f.classOk /\ f.srcOk
Resolved(f) == getLineNumber(f.tableOk, f.table, f.lineno)

\* C16: every frame written has exactly one of the four line variants, chosen by
\* the resolver outcome alone: the native sentinel gives (Native Method) whether or
\* not a source file is known; otherwise a missing source file gives
\* (Unknown Source); otherwise a missing line gives (source); otherwise
\* (source:line) with the resolved line.
C16_OneVariantByOutcome ==
  \A k \in Written :
    LET f == arg[k]
        text == ret[k].location
    IN  /\ Resolved(f) = NATIVE_METHOD_LINENO => text = <<NativeMethod>>
        /\ (Resolved(f) # NATIVE_METHOD_LINENO /\ ~SourceKnown(f))
             => text = <<UnknownSource>>
        /\ (Resolved(f) # NATIVE_METHOD_LINENO /\ SourceKnown(f) /\ Resolved(f) <= 0)
             => text = <<SourceFileName>>
        /\ (Resolved(f) > 0 /\ SourceKnown(f))
             => text = <<SourceFileName, Resolved(f)>>
        /\ Cardinality({v \in {<<NativeMethod>>, <<UnknownSource>>,
                               <<SourceFileName>>, <<SourceFileName, Resolved(f)>>} :
                          v = text}) = 1

\* C16 witness: a native frame of a class whose source file is known has been
\* written as (Native Method).
C16_Witness ==
  /\ 1 \in Written
  /\ arg[1].lineno = NATIVE_METHOD_LINENO /\ SourceKnown(arg[1])
  /\ ret[1].location = <<NativeMethod>>

\* C17: a failed lookup never aborts the dump. The line of the frame is written
\* with Unknown for a class or method name that could not be read and
\* (Unknown Source) for a source file that could not be read (unless the frame is
\* native), a failed line table gives a line without number, and as long as frames
\* remain the next one can be written.
C17_FailedLookupDegrades ==
  /\ \A k \in Written :
       LET f == arg[k] IN
         /\ ret[k].method_text = (IF f.nameOk THEN MethodName ELSE Unknown)
         /\ ret[k].class_text =
              (IF f.classOk /\ f.sigOk THEN <<"a", ".", "a">> ELSE Unknown)
         /\ (~SourceKnown(f) /\ f.lineno # NATIVE_METHOD_LINENO)
              => ret[k].location = <<UnknownSource>>
         /\ (~f.tableOk /\ f.lineno >= 0 /\ SourceKnown(f))
              => ret[k].location = <<SourceFileName>>
  /\ (fn = "printCallFrame" /\ Len(ret) < Len(arg)) => ENABLED callPrintCallFrame

\* C17 witness: the first frame's lookups all failed, and its line and the line of
\* the frame after it have been written.
C17_Witness ==
  /\ fn = "printCallFrame" /\ Len(arg) = 2 /\ Len(ret) = 2
  /\ ~arg[1].nameOk /\ ~arg[1].classOk /\ ~arg[1].tableOk
  /\ ret[1] = [class_text |-> Unknown, method_text |-> Unknown,
               location |-> <<UnknownSource>>]
  /\ arg[2].nameOk /\ arg[2].classOk /\ arg[2].sigOk /\ arg[2].srcOk /\ arg[2].tableOk
  /\ ret[2].location = <<SourceFileName, 1>>

\* The worker is in printThreadDump's loop over x_trace.frames, about to read the slot.
ReadsSlot == wpc = "printFrames"

\* C18 (as stated): on a successful capture the requester reads the capture slot
\* only while it still holds x_trace_lock.
C18_SlotReadUnderLock == ReadsSlot => x_trace_lock = Worker

\* C18 (amended): the requester holds x_trace_lock from RawMonitorEnter to the end
\* of the spin loop and no longer; when it reads the slot the capture has been
\* seen complete and the lock is already released (free, or taken by a thread in
\* onThreadEnd).
C18_SlotReadAfterRelease ==
  /\ ReadsSlot => (done /\ x_trace_lock # Worker)
  /\ x_trace_lock = Worker <=> HoldsLock

\* C18 witness: the worker is about to read the slot while an ending thread holds
\* the lock.
C18_Witness ==
  /\ ReadsSlot /\ done
  /\ \E t \in AppThreads : x_trace_lock = t /\ tpc[t] = "end_locked"

\* A step of the signal handler on thread t: its position changes.
HandlerStep(t) == hpc'[t] # hpc[t]

\* C19: a step of the signal handler changes only the capture slot and the
\* completion flag (besides its own position): not the lock, not the registry, not
\* the interrupted thread or the worker; its last step clears the flag and leaves
\* the slot; and a handler that has been entered can always take its next step and
\* does return, also while its thread is blocked in onThreadEnd waiting for
\* x_trace_lock.
C19_HandlerFrameAndProgress ==
  /\ [][\A t \in AllThreads :
          HandlerStep(t) =>
            /\ UNCHANGED <<threadVars, x_trace_lock, workerVars, callVars>>
            /\ \A u \in AllThreads \ {t} : hpc'[u] = hpc[u]
            /\ hpc[t] = "idle" => UNCHANGED slotVars
            /\ hpc'[t] = "idle" => (~x_trace_running' /\ x_trace' = x_trace)]_vars
  /\ [](\A t \in AllThreads :
          hpc[t] # "idle" => ENABLED (signalHandlerWalk(t) \/ signalHandlerClear(t)))
  /\ \A t \in AllThreads : (hpc[t] # "idle") ~> (hpc[t] = "idle")

\* C19 witness: the handler has deposited its frames on a thread that is blocked in
\* onThreadEnd, waiting for the lock the spinning worker holds.
C19_Witness ==
  \E t \in AppThreads :
    /\ tpc[t] = "end_wait" /\ hpc[t] = "clear"
    /\ x_trace_lock = Worker /\ wpc = "spin"

\* The worker has seen the capture complete and has not finished printing it.
Observed == wpc \in {"RawMonitorExit", "printThreadDump", "printFrames"}

\* C20: in the runs without timeout, a handler runs only for the current request
\* and only while that request is in its spin loop; the slot is not written from
\* the moment the request has seen completion to the end of its printing; the
\* frames a request prints are those its own signal had deposited; and the handler
\* of a signal the worker sent to itself can always run, although the worker
\* holds the lock.
C20_NoTimeoutNoOverlap ==
  /\ [](\A t \in AllThreads :
          hpc[t] # "idle" => (hreq[t] = req /\ wpc = "spin" /\ ~done))
  /\ [][Observed => x_trace' = x_trace]_vars
  /\ [](\A k \in DOMAIN out : FrameLineAt(k) => out[k].frames.req = out[k].req)
  /\ []((pending[Worker] # 0 \/ hpc[Worker] # "idle") => ENABLED HandlerNext(Worker))

\* C20 witness: the worker has dumped itself: its own handler ran while it held the
\* lock, and the frames printed are its own, of this request.
C20_Witness ==
  /\ wpc = "loop" /\ Len(results) > 0 /\ results[Len(results)] = "Printed"
  /\ \E k \in DOMAIN out :
       /\ FrameLineAt(k) /\ out[k].h = Worker /\ out[k].req = req
       /\ out[k].frames = [req |-> req, thr |-> Worker]

====
